---------------------------- MODULE Spec2Model ----------------------------
(***************************************************************************)
(* PalatePilot: the tour-generation pipeline of src/tools.py, src/main.py  *)
(* (the CLI) and src/final-ui.py (the UI).                                 *)
(*                                                                         *)
(* Strings are modelled as sequences of lexical tokens; the string         *)
(* operations of the code (strip, startswith, replace, find, rfind,        *)
(* slicing, json.loads) are operators on those sequences.                  *)
(***************************************************************************)
EXTENDS Integers, Sequences, FiniteSets, TLC

VARIABLES
    impl,       \* "cli" (src/main.py) or "ui" (src/final-ui.py)
    \* ---- get_weather (src/tools.py)
    geo,        \* what the geocoding call does: "match", "nomatch", "error"
    fc,         \* what the forecast call does: [kind, code, temp]
    wpc,        \* position in get_weather: "start", "geocoded", "done", "raised"
    coords,     \* what get_coordinates returned
    weather,    \* the reading get_weather returned
    \* ---- one invocation of extract_dishes_from_text or of the tour generator
    fn,         \* "extract" or "tour"
    text,       \* dish_text: "null" (None), "empty" ("") or "text"
    lat,        \* seconds the status request under way takes
    pc,         \* position in the function
    phase,      \* none, created, polling, succeeded, failed, timed_out, error
    tasks,      \* client.tasks.create calls made
    execs,      \* client.executions.create calls made
    polls,      \* client.executions.get calls made
    clock,      \* time.time(), in seconds since the invocation began
    deadline,   \* timeout
    svcStatus,  \* the execution's status on the service
    doneAt,     \* the time the execution became succeeded or failed, or -1
    status,     \* result.status, as last polled
    output,     \* result.output
    result,     \* the value returned
    \* ---- the batch driver: run_all and run_workflow (src/main.py), the
    \* button handler and process_city (src/final-ui.py)
    idx,        \* the city being processed, 1 .. NCities (NCities + 1: none left)
    bpc,        \* position in the pipeline of that city
    bweather,   \* weather
    dishText,   \* dish_text
    dishes,     \* dishes
    infos,      \* restaurant_infos
    tour,       \* tour_result
    results,    \* results (st.session_state.tour_results)
    completed,  \* the cities whose iteration of the loop ran to its end
    lookups,    \* the scrape_restaurants_for_dish calls asyncio.gather runs
    context,    \* restaurant_context, as the tour generator built it
    started,    \* the steps of this city's pipeline begun so far, in order
    returns,    \* what the pipeline of each city processed so far returned
    \* ---- scrape_top_dish_results (src/tools.py)
    search,     \* what the search does: its results, and how it ends
    spc,        \* position in scrape_top_dish_results
    visited,    \* the search results fetched so far
    snippets,   \* snippets
    scraped     \* the value returned

wvars == <<geo, fc, wpc, coords, weather>>

evars == <<fn, text, lat, pc, phase, tasks, execs, polls, clock, deadline,
           svcStatus, doneAt, status, output, result>>

bvars == <<idx, bpc, bweather, dishText, dishes, infos, tour, results,
           completed, lookups, context, started, returns>>

svars == <<search, spc, visited, snippets, scraped>>

vars == <<impl, wvars, evars, bvars, svars>>

Impls == {"cli", "ui"}

(***************************************************************************)
(* Bounds of the model.                                                    *)
(***************************************************************************)
MaxCode == 70       \* weather codes run over -1 .. MaxCode
MinTemp == 13       \* temperatures run over MinTemp .. MaxTemp
MaxTemp == 23
MaxLatency == 1     \* the status requests of one invocation take 0 .. MaxLatency
                    \* seconds in all, shared among them in any way
MaxMsgs == 2        \* result.output holds 0 .. MaxMsgs messages
NCities == 3        \* the batch holds NCities cities

Codes == (0 - 1) .. MaxCode
Temps == MinTemp .. MaxTemp

(***************************************************************************)
(* WeatherProvider: src/tools.py                                           *)
(***************************************************************************)
GeoOutcomes == {"match", "nomatch", "error"}

ForecastOutcomes ==
    [kind : {"ok"}, code : Codes, temp : Temps]
        \cup {[kind |-> "error", code |-> 0, temp |-> 0]}

NoReading == [temperature |-> 0, condition |-> "none", recommendation |-> "none"]

DefaultReading ==
    [temperature |-> 20, condition |-> "unknown", recommendation |-> "indoor"]

\* get_coordinates: a match returns the pair; an exception returns (None, None);
\* a response without results leaves the try block and the function ends
\* without a return statement, so the caller receives a bare None.
get_coordinates(g) ==
    CASE g = "match" -> "pair"
      [] g = "error" -> "nullpair"
      [] OTHER       -> "none"

\* lat, lon = await get_coordinates(city): unpacking a bare None raises
\* TypeError, outside any try block of get_weather.
unpack_raises(c) == c = "none"

condition_of_shifted(code) ==
    IF code = 0 THEN "clear"
    ELSE IF code < 3 THEN "cloudy"
    ELSE IF code <= 67 THEN "rainy"
    ELSE "stormy"

condition_of(code) ==
    IF code = 0 THEN "clear"
    ELSE IF code <= 3 THEN "cloudy"
    ELSE IF code <= 67 THEN "rainy"
    ELSE "stormy"

recommendation_of(condition, temp) ==
    IF condition = "clear" /\ temp > 15 THEN "outdoor" ELSE "indoor"

\* get_weather once the coordinates are unpacked.
get_weather(c, f) ==
    IF c = "nullpair" THEN DefaultReading
    ELSE IF f.kind # "ok" THEN DefaultReading
    ELSE [temperature    |-> f.temp,
          condition      |-> condition_of(f.code),
          recommendation |-> recommendation_of(condition_of(f.code), f.temp)]

\* No batch under way
BIdle ==
    /\ idx = 0 /\ bpc = "idle"
    /\ bweather = NoReading /\ dishText = "unset"
    /\ dishes = [kind |-> "unset", items |-> <<>>]
    /\ infos = <<>>
    /\ tour = [kind |-> "unset", items |-> <<>>]
    /\ results = <<>> /\ completed = {}
    /\ lookups = <<>> /\ context = <<>> /\ started = <<>> /\ returns = <<>>

\* No invocation under way
EIdle ==
    /\ fn = "tour" /\ text = "text" /\ lat = 0
    /\ pc = "idle" /\ phase = "none"
    /\ tasks = 0 /\ execs = 0 /\ polls = 0
    /\ clock = 0 /\ deadline = 0
    /\ svcStatus = "none" /\ doneAt = 0 - 1
    /\ status = "none" /\ output = <<>>
    /\ result = [kind |-> "unset", items |-> <<>>]

\* No scrape under way
SIdle ==
    /\ search = [kind |-> "noimport", pages |-> <<>>, ends |-> "done"]
    /\ spc = "idle" /\ visited = 0
    /\ snippets = <<>> /\ scraped = [kind |-> "unset", items |-> <<>>]

WInit ==
    /\ geo \in GeoOutcomes
    /\ fc \in ForecastOutcomes
    /\ wpc = "start"
    /\ coords = "unset"
    /\ weather = NoReading

\* get_weather, line 22: await get_coordinates(city)
GetCoordinates ==
    /\ wpc = "start"
    /\ coords' = get_coordinates(geo)
    /\ wpc' = "geocoded"
    /\ UNCHANGED <<geo, fc, weather, impl, evars, bvars, svars>>

\* get_weather, line 22: the unpacking fails on a bare None
GetWeatherRaise ==
    /\ wpc = "geocoded"
    /\ unpack_raises(coords)
    /\ wpc' = "raised"
    /\ UNCHANGED <<geo, fc, coords, weather, impl, evars, bvars, svars>>

\* get_weather, lines 23-63
GetWeatherReturn ==
    /\ wpc = "geocoded"
    /\ ~unpack_raises(coords)
    /\ weather' = get_weather(coords, fc)
    /\ wpc' = "done"
    /\ UNCHANGED <<geo, fc, coords, impl, evars, bvars, svars>>

WeatherInit == impl \in Impls /\ WInit /\ EIdle /\ BIdle /\ SIdle

WeatherNext == GetCoordinates \/ GetWeatherRaise \/ GetWeatherReturn

SpecWeather == WeatherInit /\ [][WeatherNext]_vars

(***************************************************************************)
(* Text.  A string is a sequence of tokens: "{" "}" "[" "]", the fence      *)
(* marker of three backquotes "FENCE", the word "json", whitespace "ws", a   *)
(* prose word "w", a JSON string literal (a dish name; "BunFENCEcha" is one *)
(* that holds the fence marker) and a JSON object member (a key with its    *)
(* value).  Separators between array elements and members are elided.       *)
(***************************************************************************)
Literals == {"Pho", "Ramen", "Sushi", "Udon", "BunFENCEcha", "Buncha"}
Members == {"city", "weather", "iconic_dishes", "tour"}

\* str.strip(): leading and trailing whitespace removed
RECURSIVE LStrip(_)
LStrip(s) == IF s # <<>> /\ Head(s) = "ws" THEN LStrip(Tail(s)) ELSE s

RECURSIVE RStrip(_)
RStrip(s) ==
    IF s # <<>> /\ s[Len(s)] = "ws" THEN RStrip(SubSeq(s, 1, Len(s) - 1)) ELSE s

Strip(s) == RStrip(LStrip(s))

\* str.startswith
StartsWith(s, prefix) ==
    Len(s) >= Len(prefix) /\ SubSeq(s, 1, Len(prefix)) = prefix

\* str.replace(FENCE + "json", ""): every occurrence, wherever it stands
RECURSIVE RemoveFenceJson(_)
RemoveFenceJson(s) ==
    IF s = <<>> THEN <<>>
    ELSE IF StartsWith(s, <<"FENCE", "json">>)
         THEN RemoveFenceJson(SubSeq(s, 3, Len(s)))
         ELSE <<Head(s)>> \o RemoveFenceJson(Tail(s))

\* str.replace("FENCE", ""): every occurrence, those inside a string literal too
RECURSIVE RemoveFence(_)
RemoveFence(s) ==
    IF s = <<>> THEN <<>>
    ELSE IF Head(s) = "FENCE" THEN RemoveFence(Tail(s))
    ELSE IF Head(s) = "BunFENCEcha" THEN <<"Buncha">> \o RemoveFence(Tail(s))
    ELSE <<Head(s)>> \o RemoveFence(Tail(s))

\* str.find / str.rfind: 0-based index of the first / last occurrence, or -1
Find(s, tok) ==
    IF \E i \in 1..Len(s) : s[i] = tok
    THEN (CHOOSE i \in 1..Len(s) :
              s[i] = tok /\ \A j \in 1..(i - 1) : s[j] # tok) - 1
    ELSE 0 - 1

RFind(s, tok) ==
    IF \E i \in 1..Len(s) : s[i] = tok
    THEN (CHOOSE i \in 1..Len(s) :
              s[i] = tok /\ \A j \in (i + 1)..Len(s) : s[j] # tok) - 1
    ELSE 0 - 1

\* A slice bound as Python clamps it: a negative index counts from the end
SliceIndex(s, i) ==
    IF i < 0 THEN (IF i + Len(s) < 0 THEN 0 ELSE i + Len(s))
    ELSE IF i > Len(s) THEN Len(s) ELSE i

\* s[start:stop]
PySlice(s, start, stop) ==
    SubSeq(s, SliceIndex(s, start) + 1, SliceIndex(s, stop))

\* The values of the model: None, a parsed JSON value, a Python list.
Null == [kind |-> "null", items |-> <<>>]
Unset == [kind |-> "unset", items |-> <<>>]
JsonError == [kind |-> "error", items |-> <<>>]

NoWs(s) == SelectSeq(s, LAMBDA t : t # "ws")

Inner(s) == SubSeq(s, 2, Len(s) - 1)

\* json.loads: a string literal, an array of string literals or an object of
\* members, whitespace ignored; anything else raises (JsonError).
JsonLoads(s) ==
    LET t == NoWs(s) IN
    IF Len(t) = 1 /\ t[1] \in Literals
        THEN [kind |-> "string", items |-> t]
    ELSE IF Len(t) >= 2 /\ t[1] = "[" /\ t[Len(t)] = "]"
            /\ \A i \in 2..(Len(t) - 1) : t[i] \in Literals
        THEN [kind |-> "array", items |-> Inner(t)]
    ELSE IF Len(t) >= 2 /\ t[1] = "{" /\ t[Len(t)] = "}"
            /\ \A i \in 2..(Len(t) - 1) : t[i] \in Members
        THEN [kind |-> "object", items |-> Inner(t)]
    ELSE JsonError

\* bool(x) of a content string: None and "" are both false
Truthy(content) == content # <<>>

(***************************************************************************)
(* extract_final_json_from_output: src/main.py 17-31, src/final-ui.py 49-63 *)
(***************************************************************************)
IsAssistantWithContent(item) == item.role = "assistant" /\ Truthy(item.content)

\* The try block: the slice from the first "{" to the last "}", parsed; a
\* parse error returns None.
json_from_text(txt) ==
    LET start == Find(txt, "{")
        end == RFind(txt, "}")
        v == JsonLoads(PySlice(txt, start, end + 1))
    IN IF v.kind = "error" THEN Null ELSE v

\* The loop going on to the message before when the parse fails
RECURSIVE extract_final_json_falling_back(_, _)
extract_final_json_falling_back(output_list, i) ==
    IF i = 0 THEN Null
    ELSE IF IsAssistantWithContent(output_list[i])
              /\ json_from_text(output_list[i].content) # Null
         THEN json_from_text(output_list[i].content)
         ELSE extract_final_json_falling_back(output_list, i - 1)

\* for item in reversed(output_list), from index i down: the first assistant
\* message with content decides, whatever its parse gives.
RECURSIVE extract_final_json_from(_, _)
extract_final_json_from(output_list, i) ==
    IF i = 0 THEN Null
    ELSE IF IsAssistantWithContent(output_list[i])
         THEN json_from_text(output_list[i].content)
         ELSE extract_final_json_from(output_list, i - 1)

extract_final_json_from_output(output_list) ==
    extract_final_json_from(output_list, Len(output_list))

(***************************************************************************)
(* extract_dishes_from_text, the parsing of a succeeded execution's output: *)
(* src/main.py 191-210, src/final-ui.py 178-195                             *)
(***************************************************************************)
Fallback == [kind |-> "array",
             items |-> <<"Traditional Dish 1", "Traditional Dish 2",
                         "Traditional Dish 3">>]

\* lines 196-201: strip, then the fence markers replaced away
unfence(content) ==
    LET c == Strip(content) IN
    IF StartsWith(c, <<"FENCE", "json">>)
        THEN Strip(RemoveFence(RemoveFenceJson(c)))
    ELSE IF StartsWith(c, <<"FENCE">>)
        THEN Strip(RemoveFence(c))
    ELSE c

\* dishes[:3]
first_three_untruncated(ds) == ds

first_three(ds) == PySlice(ds, 0, 3)

\* lines 193-207: the last assistant message whose content parses to a list
\* of at least 3 elements gives its first 3; a message that does not is
\* passed over (continue) for the one before it.
RECURSIVE dishes_from(_, _)
dishes_from(output_list, i) ==
    IF i = 0 THEN Fallback
    ELSE LET item == output_list[i]
             ds == JsonLoads(unfence(item.content))
         IN IF IsAssistantWithContent(item) /\ ds.kind = "array"
                  /\ Len(ds.items) >= 3
            THEN [kind |-> "array", items |-> first_three(ds.items)]
            ELSE dishes_from(output_list, i - 1)

dishes_from_output(output_list) == dishes_from(output_list, Len(output_list))

(***************************************************************************)
(* The agent-execution service's answers: the messages an execution's      *)
(* output may hold.                                                        *)
(***************************************************************************)
Arr(items) == <<"[">> \o items \o <<"]">>
Obj(members) == <<"{">> \o members \o <<"}">>
FenceJson(body) == <<"FENCE", "json", "ws">> \o body \o <<"ws", "FENCE">>
FencePlain(body) == <<"FENCE", "ws">> \o body \o <<"ws", "FENCE">>
Assistant(content) == [role |-> "assistant", content |-> content]
User(content) == [role |-> "user", content |-> content]

TourPlanMembers == <<"city", "weather", "iconic_dishes", "tour">>

DishMessages ==
    { Assistant(Arr(<<"Pho", "Ramen", "Sushi", "Udon">>)),
      Assistant(FenceJson(Arr(<<"Ramen", "Sushi", "Udon">>))),
      Assistant(FencePlain(Arr(<<"Sushi", "Pho", "Udon">>))),
      Assistant(FenceJson(Arr(<<"BunFENCEcha", "Pho", "Ramen">>))),
      Assistant(Arr(<<"Pho", "Ramen">>)),
      Assistant(<<"w", "w">>),
      Assistant(<<>>),
      User(Arr(<<"Udon", "Sushi", "Pho">>)) }

TourMessages ==
    { Assistant(Obj(TourPlanMembers)),
      Assistant(Obj(<<"city">>)),
      Assistant(Obj(<<>>)),
      Assistant(<<"w">> \o Obj(TourPlanMembers) \o <<"w">>),
      Assistant(<<"w", "{", "w", "}", "w">> \o Obj(TourPlanMembers)),
      Assistant(<<"w", "w">>),
      Assistant(<<>>),
      User(Obj(TourPlanMembers)) }

Messages(f) == IF f = "extract" THEN DishMessages ELSE TourMessages

SeqsUpTo(S, n) == UNION {[1..k -> S] : k \in 0..n}

Outputs(f) == SeqsUpTo(Messages(f), MaxMsgs)

(***************************************************************************)
(* One invocation of extract_dishes_from_text (src/main.py 154-214,        *)
(* src/final-ui.py 139-199) or of the tour generator (generate_foodie_tour, *)
(* src/main.py 34-103; generate_tour, src/final-ui.py 66-136).              *)
(***************************************************************************)
PollInterval == 2
TourTimeout == 60
DishTimeout == 30

Fns == {"extract", "tour"}
Texts == {"null", "empty", "text"}

timeout_of(f) == IF f = "tour" THEN TourTimeout ELSE DishTimeout

\* What the function returns where it gives up: the except branch, the
\* timeout branch, a failed execution.
on_failure_placeholder(f) == Fallback

on_failure(f) == IF f = "tour" THEN Null ELSE Fallback

\* What it returns from a succeeded execution's output.
parse_output(f, out) ==
    IF f = "tour" THEN extract_final_json_from_output(out)
    ELSE dishes_from_output(out)

\* What an invocation returns, by how its execution ended: "succeeded" or
\* "failed" (the status polled), "timed_out" (the deadline passed in the
\* loop), "error" (the service client threw).
Outcomes == {"succeeded", "failed", "timed_out", "error"}

returned(f, outcome, out) ==
    IF outcome = "succeeded" THEN parse_output(f, out) ELSE on_failure(f)

EInit ==
    /\ fn \in Fns
    /\ text \in (IF fn = "extract" THEN Texts ELSE {"text"})
    /\ lat = 0
    /\ pc = "start" /\ phase = "none"
    /\ tasks = 0 /\ execs = 0 /\ polls = 0
    /\ clock = 0 /\ deadline = 0
    /\ svcStatus = "none" /\ doneAt = 0 - 1
    /\ status = "none" /\ output = <<>>
    /\ result = Unset

\* final-ui.py 141-142: if not dish_text: return the fallback list
guard_in_ui(i, f, t) == i = "ui" /\ f = "extract" /\ t \in {"null", "empty"}

EnterGuardReturn ==
    /\ pc = "start"
    /\ guard_in_ui(impl, fn, text)
    /\ result' = Fallback
    /\ pc' = "done"
    /\ UNCHANGED <<fn, text, lat, phase, tasks, execs, polls, clock, deadline,
                   svcStatus, doneAt, status, output, impl, wvars, bvars, svars>>

\* main.py 156-162: the prompt's dish_text[:3000], before the try block,
\* raises TypeError on None
prompt_raises(i, f, t) == i = "cli" /\ f = "extract" /\ t = "null"

EnterRaise ==
    /\ pc = "start"
    /\ prompt_raises(impl, fn, text)
    /\ pc' = "raised"
    /\ UNCHANGED <<fn, text, lat, phase, tasks, execs, polls, clock, deadline,
                   svcStatus, doneAt, status, output, result, impl, wvars, bvars, svars>>

\* The prompt is built and the try block entered
EnterPrompt ==
    /\ pc = "start"
    /\ ~guard_in_ui(impl, fn, text)
    /\ ~prompt_raises(impl, fn, text)
    /\ pc' = "task"
    /\ UNCHANGED <<fn, text, lat, phase, tasks, execs, polls, clock, deadline,
                   svcStatus, doneAt, status, output, result, impl, wvars, bvars, svars>>

\* except Exception: the function returns its give-up value
ClientError ==
    /\ phase' = "error"
    /\ result' = returned(fn, "error", output)
    /\ pc' = "done"

\* client.tasks.create(agent_id=agent_id, **task_definition)
TasksCreate ==
    /\ pc = "task"
    /\ tasks' = tasks + 1
    /\ \/ /\ pc' = "exec"
          /\ UNCHANGED <<phase, result>>
       \/ ClientError
    /\ UNCHANGED <<fn, text, lat, execs, polls, clock, deadline,
                   svcStatus, doneAt, status, output, impl, wvars, bvars, svars>>

\* client.executions.create(task_id=task.id, input=...), then
\* timeout = time.time() + 60 (the tour) or + 30 (the dishes)
ExecutionsCreate ==
    /\ pc = "exec"
    /\ execs' = execs + 1
    /\ \/ /\ svcStatus' = "running"
          /\ phase' = "created"
          /\ deadline' = clock + timeout_of(fn)
          /\ pc' = "poll"
          /\ UNCHANGED result
       \/ /\ ClientError
          /\ UNCHANGED <<svcStatus, deadline>>
    /\ UNCHANGED <<fn, text, lat, tasks, polls, clock,
                   doneAt, status, output, impl, wvars, bvars, svars>>

\* The service ends the execution, at any moment the client is in its loop
ServiceProgress ==
    /\ pc \in {"poll", "await", "sleep"}
    /\ svcStatus = "running"
    /\ svcStatus' \in {"succeeded", "failed"}
    /\ doneAt' = clock
    /\ UNCHANGED <<fn, text, lat, pc, phase, tasks, execs, polls, clock,
                   deadline, status, output, result, impl, wvars, bvars, svars>>

\* The seconds the status requests have taken so far, at the top of the
\* loop: the time passed but for the sleeps, one per request made
delayed(now, requests) == now - PollInterval * requests

\* The loop's condition: client.executions.get(execution.id) is called; the
\* request takes its own time
PollSend ==
    /\ pc = "poll"
    /\ polls' = polls + 1
    /\ lat' \in 0..(MaxLatency - delayed(clock, polls))
    /\ phase' = "polling"
    /\ pc' = "await"
    /\ UNCHANGED <<fn, text, tasks, execs, clock, deadline,
                   svcStatus, doneAt, status, output, result, impl, wvars, bvars, svars>>

\* ... and returns the execution, or throws
PollReturn ==
    /\ pc = "await"
    /\ clock' = clock + lat
    /\ lat' = 0
    /\ \/ /\ svcStatus = "running"
          /\ status' = svcStatus
          /\ pc' = "sleep"
          /\ UNCHANGED <<phase, output, result>>
       \/ /\ svcStatus = "succeeded"
          /\ status' = svcStatus
          /\ output' \in Outputs(fn)
          /\ phase' = "succeeded"
          /\ pc' = "finish"
          /\ UNCHANGED result
       \/ /\ svcStatus = "failed"
          /\ status' = svcStatus
          /\ phase' = "failed"
          /\ pc' = "finish"
          /\ UNCHANGED <<output, result>>
       \/ /\ ClientError
          /\ UNCHANGED <<status, output>>
    /\ UNCHANGED <<fn, text, tasks, execs, polls, deadline,
                   svcStatus, doneAt, impl, wvars, bvars, svars>>

\* The loop's body: time.sleep(2), then if time.time() > timeout: return
timed_out_inclusive(now, limit) == now >= limit

timed_out(now, limit) == now > limit

\* The loop's body with a timed-out execution created anew
SleepRetrying ==
    /\ pc = "sleep"
    /\ clock' = clock + PollInterval
    /\ IF timed_out(clock', deadline)
       THEN /\ phase' = "timed_out"
            /\ pc' = "exec"
            /\ UNCHANGED result
       ELSE /\ pc' = "poll"
            /\ UNCHANGED <<phase, result>>
    /\ UNCHANGED <<fn, text, lat, tasks, execs, polls, deadline,
                   svcStatus, doneAt, status, output, impl, wvars, bvars, svars>>

Sleep ==
    /\ pc = "sleep"
    /\ clock' = clock + PollInterval
    /\ IF timed_out(clock', deadline)
       THEN /\ phase' = "timed_out"
            /\ result' = returned(fn, "timed_out", output)
            /\ pc' = "done"
       ELSE /\ pc' = "poll"
            /\ UNCHANGED <<phase, result>>
    /\ UNCHANGED <<fn, text, lat, tasks, execs, polls, deadline,
                   svcStatus, doneAt, status, output, impl, wvars, bvars, svars>>

\* After the loop: if result.status == "succeeded": ... else: ...
Finish ==
    /\ pc = "finish"
    /\ result' = returned(fn, status, output)
    /\ pc' = "done"
    /\ UNCHANGED <<fn, text, lat, phase, tasks, execs, polls, clock, deadline,
                   svcStatus, doneAt, status, output, impl, wvars, bvars, svars>>

WIdle ==
    /\ geo = "match" /\ fc = [kind |-> "error", code |-> 0, temp |-> 0]
    /\ wpc = "idle" /\ coords = "unset" /\ weather = NoReading

ExecInit == impl \in Impls /\ EInit /\ WIdle /\ BIdle /\ SIdle

ExecNext ==
    \/ EnterGuardReturn \/ EnterRaise \/ EnterPrompt
    \/ TasksCreate \/ ExecutionsCreate \/ ServiceProgress
    \/ PollSend \/ PollReturn \/ Sleep \/ Finish

SpecExec == ExecInit /\ [][ExecNext]_vars

(***************************************************************************)
(* The scrapers: scrape_top_dish_results (src/tools.py 66-101) and          *)
(* scrape_restaurants_for_dish (104-139).  A page text is its position in   *)
(* the search results and its length in characters; the search yields at    *)
(* most num_results URLs and then ends, or raises while it is iterated.     *)
(***************************************************************************)
NumResults == 3
MinLength == 200
MaxChars == 2000

FetchFailed == [kind |-> "fail", len |-> 0]

PageLengths == {MinLength, MinLength + 1, MaxChars + 1}

\* What session.get(url) and res.text() give for one URL
Fetches == {FetchFailed} \cup [kind : {"page"}, len : PageLengths]

NoImport == [kind |-> "noimport", pages |-> <<>>, ends |-> "done"]

\* What search(query, num_results=3) does
Searches ==
    {NoImport} \cup
    [kind : {"search"}, pages : SeqsUpTo(Fetches, NumResults),
     ends : {"done", "raises"}]

\* content[:2000]
truncate(n) == IF n > MaxChars THEN MaxChars ELSE n

\* The body of the for loop for the k-th URL: a fetch that raises is skipped
\* (continue); a text of more than 200 characters is appended, cut to 2000
keep_from_200(snips, k, page) ==
    IF page.kind = "page" /\ page.len >= MinLength
    THEN Append(snips, [url |-> k, len |-> truncate(page.len)])
    ELSE snips

keep(snips, k, page) ==
    IF page.kind = "page" /\ page.len > MinLength
    THEN Append(snips, [url |-> k, len |-> truncate(page.len)])
    ELSE snips

\* The for loop over the URLs the search yields, from the k-th on
RECURSIVE scrape_loop(_, _, _)
scrape_loop(snips, pages, k) ==
    IF k > Len(pages) THEN snips
    ELSE scrape_loop(keep(snips, k, pages[k]), pages, k + 1)

\* scrape_restaurants_for_dish: [] when the import fails, else results,
\* whether the search ended or raised
scrape_restaurants_for_dish(srch) ==
    IF srch.kind = "noimport" THEN <<>> ELSE scrape_loop(<<>>, srch.pages, 1)

\* "\n\n".join(snippets)
Separator == [url |-> 0, len |-> 2]

RECURSIVE Join(_, _)
Join(parts, sep) ==
    IF parts = <<>> THEN <<>>
    ELSE IF Len(parts) = 1 THEN parts
    ELSE <<Head(parts), sep>> \o Join(Tail(parts), sep)

\* return "\n\n".join(snippets) if snippets else None
joined_or_none(snips) ==
    IF snips # <<>> THEN [kind |-> "text", items |-> Join(snips, Separator)]
    ELSE Null

SInit ==
    /\ search \in Searches
    /\ spc = "import" /\ visited = 0
    /\ snippets = <<>> /\ scraped = Unset

\* lines 68-72: from googlesearch import search, None on ImportError
ScrapeImport ==
    /\ spc = "import"
    /\ IF search.kind = "noimport"
       THEN scraped' = Null /\ spc' = "done"
       ELSE spc' = "loop" /\ UNCHANGED scraped
    /\ UNCHANGED <<search, visited, snippets, impl, wvars, evars, bvars>>

\* lines 79-96: one turn of the loop, for the next URL the search yields
ScrapeVisit ==
    /\ spc = "loop"
    /\ visited < Len(search.pages)
    /\ visited' = visited + 1
    /\ snippets' = keep(snippets, visited', search.pages[visited'])
    /\ UNCHANGED <<search, spc, scraped, impl, wvars, evars, bvars>>

\* The search yields no further URL: the loop ends, or the exception it
\* raises is caught and printed (lines 98-99)
ScrapeSearchEnds ==
    /\ spc = "loop"
    /\ visited = Len(search.pages)
    /\ spc' = "return"
    /\ UNCHANGED <<search, visited, snippets, scraped, impl, wvars, evars,
                   bvars>>

\* line 101
ScrapeReturn ==
    /\ spc = "return"
    /\ scraped' = joined_or_none(snippets)
    /\ spc' = "done"
    /\ UNCHANGED <<search, visited, snippets, impl, wvars, evars, bvars>>

ScrapeInit == impl \in Impls /\ SInit /\ WIdle /\ EIdle /\ BIdle

ScrapeNext == ScrapeImport \/ ScrapeVisit \/ ScrapeSearchEnds \/ ScrapeReturn

SpecScrape == ScrapeInit /\ [][ScrapeNext]_vars

(***************************************************************************)
(* The batch driver.  CLI: run_all (src/main.py 220-236) calling            *)
(* run_workflow (106-151).  UI: the button handler (src/final-ui.py         *)
(* 336-365) calling process_city (202-222).  Each await is one step; what   *)
(* the network and the service answer is drawn at the step.                 *)
(***************************************************************************)
BatchForecasts ==
    [kind : {"ok"}, code : {0, 3, MaxCode}, temp : {MinTemp, MaxTemp}]
        \cup {[kind |-> "error", code |-> 0, temp |-> 0]}

\* What the search of one restaurant lookup may do: fail at once, fail after
\* a page was kept, give one page, give three
LongPage == [kind |-> "page", len |-> MinLength + 1]
HugePage == [kind |-> "page", len |-> MaxChars + 1]

LookupSearches ==
    { [kind |-> "search", pages |-> <<>>, ends |-> "raises"],
      [kind |-> "search", pages |-> <<LongPage>>, ends |-> "raises"],
      [kind |-> "search", pages |-> <<FetchFailed, LongPage>>, ends |-> "done"],
      [kind |-> "search", pages |-> <<LongPage, LongPage, HugePage>>,
       ends |-> "done"] }

\* Every value an invocation that reaches the service can return, over the
\* ways its execution can end and the outputs it can hold
ExtractReturns ==
    {returned("extract", o, out) : o \in Outcomes, out \in Outputs("extract")}

TourReturns ==
    {returned("tour", o, out) : o \in Outcomes, out \in Outputs("tour")}

\* extract_dishes_from_text as a whole, for a dish_text it does not raise on
extract_dishes_from_text(i, t) ==
    IF guard_in_ui(i, "extract", t) THEN {Fallback} ELSE ExtractReturns

\* bool(tour_result): None and the empty dict are false
TruthyValue(v) == v.kind # "null" /\ ~(v.kind = "object" /\ v.items = <<>>)

\* restaurant_context: one line per pair of zip(dishes, restaurant_infos).
\* main.py 39-41 joins restaurants[:3] whatever the list holds;
\* final-ui.py 71-76 joins restaurants[:2], or writes the phrase
\* "Popular local restaurants" when the list is empty.
SemiColon == [url |-> 0, len |-> 2]

Phrase == [kind |-> "phrase", items |-> <<>>]

Joined(restaurants) == [kind |-> "joined", items |-> Join(restaurants, SemiColon)]

context_line(i, dish, restaurants) ==
    [dish |-> dish,
     text |-> IF i = "cli" THEN Joined(PySlice(restaurants, 0, 3))
              ELSE IF restaurants # <<>> THEN Joined(PySlice(restaurants, 0, 2))
              ELSE Phrase]

restaurant_context(i, ds, rs) ==
    [k \in 1..(IF Len(ds) < Len(rs) THEN Len(ds) ELSE Len(rs)) |->
        context_line(i, ds[k], rs[k])]

\* One call of scrape_restaurants_for_dish under asyncio.gather
Pending == [state |-> "pending", search |-> NoImport, value |-> <<>>]

Returned(srch) ==
    [state |-> "returned", search |-> srch,
     value |-> scrape_restaurants_for_dish(srch)]

\* asyncio.gather resumes its caller when some call has returned
some_returned(ls) == \E k \in DOMAIN ls : ls[k].state = "returned"

\* asyncio.gather resumes its caller when every call has returned
all_returned(ls) == \A k \in DOMAIN ls : ls[k].state = "returned"

\* One failed search empties every list
gathered_all_or_nothing(ls) ==
    IF \E k \in DOMAIN ls : ls[k].search.ends = "raises" /\ ls[k].value = <<>>
    THEN [k \in DOMAIN ls |-> <<>>]
    ELSE [k \in DOMAIN ls |-> ls[k].value]

\* The list asyncio.gather returns: the value of each call, at the position
\* of the call
gathered(ls) == [k \in DOMAIN ls |-> ls[k].value]

Raised == [kind |-> "raised", items |-> <<>>]

\* What run_workflow (main.py 143-151) / process_city (final-ui.py 222)
\* returns for a tour_result
pipeline_return(i, t) == IF i = "cli" /\ ~TruthyValue(t) THEN Null ELSE t

\* if result: results.append(result), at the front
append_result_in_front(rs, v) == IF TruthyValue(v) THEN <<v>> \o rs ELSE rs

\* if result: results.append(result)
append_result(rs, v) == IF TruthyValue(v) THEN Append(rs, v) ELSE rs

BInit ==
    /\ idx = 1 /\ bpc = "weather"
    /\ bweather = NoReading /\ dishText = "unset"
    /\ dishes = Unset /\ infos = <<>> /\ tour = Unset
    /\ results = <<>> /\ completed = {}
    /\ lookups = <<>> /\ context = <<>> /\ started = <<>> /\ returns = <<>>

\* The loop moves to the next city, the locals of the last one gone
NextCity ==
    /\ completed' = completed \cup {idx}
    /\ idx' = idx + 1
    /\ bpc' = IF idx = NCities THEN "save" ELSE "weather"
    /\ bweather' = NoReading /\ dishText' = "unset"
    /\ dishes' = Unset /\ infos' = <<>> /\ tour' = Unset
    /\ lookups' = <<>> /\ context' = <<>> /\ started' = <<>>

\* An exception leaves run_workflow / process_city.  run_all has no handler:
\* it leaves run_all and asyncio.run too.  The UI's handler catches it
\* (final-ui.py 361-362) and goes on with the next city.
uncaught(i) == i = "cli"

Propagate ==
    IF uncaught(impl)
    THEN /\ bpc' = "aborted"
         /\ UNCHANGED <<idx, bweather, dishText, dishes, infos, tour,
                        completed, lookups, context, returns>>
    ELSE /\ NextCity
         /\ returns' = Append(returns, Raised)
         /\ UNCHANGED results

\* weather = await get_weather(city)
StepWeather ==
    /\ bpc = "weather"
    /\ \E g \in GeoOutcomes, f \in BatchForecasts :
          IF unpack_raises(get_coordinates(g))
          THEN /\ Propagate
               /\ (uncaught(impl) => started' = Append(started, "weather"))
          ELSE /\ bweather' = get_weather(get_coordinates(g), f)
               /\ bpc' = "scrape"
               /\ started' = Append(started, "weather")
               /\ UNCHANGED <<idx, dishText, dishes, infos, tour, completed,
                              lookups, context, returns>>
    /\ UNCHANGED <<results, impl, wvars, evars, svars>>

\* dish_text = await scrape_top_dish_results(city): the joined page texts,
\* or None
StepScrape ==
    /\ bpc = "scrape"
    /\ dishText' \in {"null", "text"}
    /\ bpc' = "extract"
    /\ started' = Append(started, "scrape")
    /\ UNCHANGED <<idx, bweather, dishes, infos, tour, results, completed,
                   lookups, context, returns, impl, wvars, evars, svars>>

\* main.py 118-124: the fallback list without a call when dish_text is
\* empty, else extract_dishes_from_text; final-ui.py 209: always the call
StepExtract ==
    /\ bpc = "extract"
    /\ dishes' \in IF impl = "cli" /\ dishText = "null" THEN {Fallback}
                   ELSE extract_dishes_from_text(impl, dishText)
    /\ bpc' = "gather"
    /\ started' = Append(started, "extract")
    /\ UNCHANGED <<idx, bweather, dishText, infos, tour, results, completed,
                   lookups, context, returns, impl, wvars, evars, svars>>

\* asyncio.gather(*[scrape_restaurants_for_dish(city, dish) for dish in
\* dishes]): one call per dish, every one of them scheduled by the gather
StepGather ==
    /\ bpc = "gather"
    /\ lookups' = [k \in 1..Len(dishes.items) |-> Pending]
    /\ bpc' = "gathering"
    /\ started' = Append(started, "lookups")
    /\ UNCHANGED <<idx, bweather, dishText, dishes, infos, tour, results,
                   completed, context, returns, impl, wvars, evars, svars>>

\* One of the calls returns its results; the calls end in any order
LookupReturn ==
    /\ bpc = "gathering"
    /\ \E k \in DOMAIN lookups, srch \in LookupSearches :
          /\ lookups[k].state = "pending"
          /\ lookups' = [lookups EXCEPT ![k] = Returned(srch)]
    /\ UNCHANGED <<idx, bpc, bweather, dishText, dishes, infos, tour, results,
                   completed, context, started, returns, impl, wvars, evars,
                   svars>>

\* restaurant_infos = await asyncio.gather(...): one list per dish, in dish
\* order.  scrape_restaurants_for_dish catches what its search and its
\* fetches raise, so the except branch of main.py 135-137 is not entered.
StepJoin ==
    /\ bpc = "gathering"
    /\ all_returned(lookups)
    /\ infos' = gathered(lookups)
    /\ bpc' = "tour"
    /\ UNCHANGED <<idx, bweather, dishText, dishes, tour, results, completed,
                   lookups, context, started, returns, impl, wvars, evars,
                   svars>>

\* tour_result = await generate_foodie_tour(city, weather, dishes,
\* restaurant_infos) (generate_tour in the UI)
StepTour ==
    /\ bpc = "tour"
    /\ context' = restaurant_context(impl, dishes.items, infos)
    /\ tour' \in TourReturns
    /\ bpc' = "return"
    /\ started' = Append(started, "tour")
    /\ UNCHANGED <<idx, bweather, dishText, dishes, infos, results, completed,
                   lookups, returns, impl, wvars, evars, svars>>

\* The pipeline returns; if result: results.append(result); then the next
\* city
StepReturn ==
    /\ bpc = "return"
    /\ returns' = Append(returns, pipeline_return(impl, tour))
    /\ results' = append_result(results, pipeline_return(impl, tour))
    /\ NextCity
    /\ UNCHANGED <<impl, wvars, evars, svars>>

\* After the loop: the results are saved (CLI) or shown (UI)
StepSave ==
    /\ bpc = "save"
    /\ bpc' = "end"
    /\ UNCHANGED <<idx, bweather, dishText, dishes, infos, tour, results,
                   completed, lookups, context, started, returns, impl, wvars,
                   evars, svars>>

BatchInit == impl \in Impls /\ BInit /\ WIdle /\ EIdle /\ SIdle

BatchNext ==
    \/ StepWeather \/ StepScrape \/ StepExtract \/ StepGather \/ LookupReturn
    \/ StepJoin \/ StepTour \/ StepReturn \/ StepSave

SpecBatch == BatchInit /\ [][BatchNext]_vars

(***************************************************************************)
(* Claims about get_weather, checked under SpecWeather.                    *)
(***************************************************************************)
Conditions == {"clear", "cloudy", "rainy", "stormy", "unknown"}
Recommendations == {"outdoor", "indoor"}

\* C1: get_weather never raises and always returns a reading whose condition
\* is clear, cloudy, rainy, stormy or unknown and whose recommendation is
\* outdoor or indoor, whatever the geocoding and forecast calls do; when
\* geocoding finds no match or fails, the reading is the default
\* {20, unknown, indoor}.
C1_WeatherNeverRaises ==
    /\ wpc # "raised"
    /\ wpc = "done" =>
          /\ weather.condition \in Conditions
          /\ weather.recommendation \in Recommendations
          /\ geo \in {"nomatch", "error"} => weather = DefaultReading

\* C2: on a successful forecast with weather code c and temperature t the
\* condition is clear for c = 0, cloudy for 1..3, rainy for 4..67, stormy
\* above 67, and the recommendation is outdoor exactly when the condition is
\* clear and t > 15.
C2_ConditionThresholds ==
    (wpc = "done" /\ geo = "match" /\ fc.kind = "ok") =>
        /\ fc.code = 0 => weather.condition = "clear"
        /\ (1 <= fc.code /\ fc.code <= 3) => weather.condition = "cloudy"
        /\ (4 <= fc.code /\ fc.code <= 67) => weather.condition = "rainy"
        /\ fc.code > 67 => weather.condition = "stormy"
        /\ weather.recommendation = "outdoor"
              <=> (weather.condition = "clear" /\ fc.temp > 15)
        /\ weather.recommendation \in Recommendations
        /\ weather.temperature = fc.temp

\* A clear, warm day was read: code 0 at 22 degrees gives clear / outdoor,
C2_Witness ==
    /\ wpc = "done" /\ geo = "match" /\ fc.kind = "ok"
    /\ fc.code = 0 /\ fc.temp = 22
    /\ weather.condition = "clear" /\ weather.recommendation = "outdoor"

(***************************************************************************)
(* Claims about the dish list, checked under SpecBatch and SpecExec.       *)
(***************************************************************************)
\* C3: whatever dish discovery and dish extraction did (no dish text, an
\* execution that succeeded with any output, failed, timed out, a client
\* error, unparsable or short output), the dish list handed to restaurant
\* discovery and to tour generation has exactly 3 elements, and restaurant
\* discovery answers with one list per dish.
C3_DishListHasThree ==
    /\ bpc \in {"gather", "tour", "return"} =>
          dishes.kind = "array" /\ Len(dishes.items) = 3
    /\ bpc \in {"tour", "return"} => Len(infos) = 3

\* A 4-element array was extracted and its first 3 handed to tour generation
C3_Witness ==
    /\ bpc = "tour"
    /\ dishText = "text"
    /\ dishes.items = <<"Pho", "Ramen", "Sushi">>
    /\ Len(infos) = 3

\* C4: extract_dishes_from_text called with a null or an empty text returns
\* exactly the fallback list at once, without raising and without creating a
\* task or an execution, in the CLI and in the UI implementation.
C4_EmptyTextGivesFallback ==
    (fn = "extract" /\ text \in {"null", "empty"}) =>
        /\ pc # "raised"
        /\ tasks = 0 /\ execs = 0 /\ polls = 0
        /\ pc = "done" => result = Fallback

\* The last message of a list with the role assistant, or 0
LastAssistantIndex(out) ==
    IF \E i \in 1..Len(out) : out[i].role = "assistant"
    THEN CHOOSE i \in 1..Len(out) :
            /\ out[i].role = "assistant"
            /\ \A j \in (i + 1)..Len(out) : out[j].role # "assistant"
    ELSE 0

\* A content with its wrapping fence markers taken off: the opening marker,
\* with or without the word json, and the closing one
Unwrapped(c) ==
    IF Len(c) >= 5 /\ StartsWith(c, <<"FENCE", "json", "ws">>)
          /\ SubSeq(c, Len(c) - 1, Len(c)) = <<"ws", "FENCE">>
        THEN SubSeq(c, 4, Len(c) - 2)
    ELSE IF Len(c) >= 4 /\ StartsWith(c, <<"FENCE", "ws">>)
          /\ SubSeq(c, Len(c) - 1, Len(c)) = <<"ws", "FENCE">>
        THEN SubSeq(c, 3, Len(c) - 2)
    ELSE c

IsArrayOfLiterals(c) ==
    /\ Len(c) >= 2 /\ c[1] = "[" /\ c[Len(c)] = "]"
    /\ \A i \in 2..(Len(c) - 1) : c[i] \in Literals

\* C5: when the dish-extraction execution succeeds and the content of its
\* last assistant message is a valid JSON array of n >= 3 elements, bare or
\* wrapped in fence markers (with or without the word json), the function
\* returns exactly the first 3 elements of that array, in order.
C5_FencedArrayFirstThree ==
    (fn = "extract" /\ pc = "done" /\ phase = "succeeded"
        /\ LastAssistantIndex(output) > 0) =>
        LET body == Unwrapped(output[LastAssistantIndex(output)].content)
        IN (IsArrayOfLiterals(body) /\ Len(body) - 2 >= 3) =>
              result = [kind |-> "array", items |-> SubSeq(body, 2, 4)]

(***************************************************************************)
(* Claims about the tour generator, checked under SpecExec.                *)
(***************************************************************************)
HasAssistantContent(out) ==
    \E i \in 1..Len(out) : out[i].role = "assistant" /\ out[i].content # <<>>

\* The content of the last assistant message that has content
ChosenContent(out) ==
    out[CHOOSE i \in 1..Len(out) :
            /\ out[i].role = "assistant" /\ out[i].content # <<>>
            /\ \A j \in (i + 1)..Len(out) :
                  ~(out[j].role = "assistant" /\ out[j].content # <<>>)].content

\* No span of the content from a "{" to a "}" is a JSON text
NoJsonSpan(c) ==
    \A i \in 1..Len(c) : \A j \in i..Len(c) :
        (c[i] = "{" /\ c[j] = "}") =>
            ~(\A k \in (i + 1)..(j - 1) : c[k] \in Members \cup {"ws"})

\* C6: the tour generator returns null and never raises whenever the
\* execution ends failed, the polling deadline is exceeded, the service
\* client throws, the output holds no assistant message with content, or the
\* chosen assistant message has no span from "{" to "}" that parses as JSON.
C6_TourNullOnFailure ==
    fn = "tour" =>
        /\ pc # "raised"
        /\ (pc = "done" /\ phase \in {"failed", "timed_out", "error"})
              => result = Null
        /\ (pc = "done" /\ phase = "succeeded" /\ ~HasAssistantContent(output))
              => result = Null
        /\ (pc = "done" /\ phase = "succeeded" /\ HasAssistantContent(output)
              /\ NoJsonSpan(ChosenContent(output)))
              => result = Null

\* A succeeded execution whose last message is the assistant's prose, without
\* a brace, gave null
C6_Witness ==
    /\ fn = "tour" /\ pc = "done" /\ phase = "succeeded"
    /\ Len(output) = 2
    /\ output[2] = Assistant(<<"w", "w">>)
    /\ output[1] = Assistant(Obj(TourPlanMembers))
    /\ result = Null

IsTourPlan(v) ==
    /\ v.kind = "object"
    /\ {v.items[i] : i \in 1..Len(v.items)} = Members

\* C7: every non-null value the tour generator returns is a JSON object of
\* the full TourPlan shape (city, weather, iconic_dishes, tour); output that
\* parses as JSON but is partial or of another shape yields null.
C7_NonNullIsTourPlan ==
    (fn = "tour" /\ pc = "done" /\ result # Null) => IsTourPlan(result)

(***************************************************************************)
(* Claims about the polling protocol, checked under SpecExec.              *)
(***************************************************************************)
ThreeOutcomes == {"succeeded", "failed", "timed_out"}

\* The moves of the protocol: created -> polling -> one of the Ends
PhaseMoves(Ends) ==
    \/ phase' = phase
    \/ phase = "none" /\ phase' = "created"
    \/ phase = "created" /\ phase' = "polling"
    \/ phase = "polling" /\ phase' \in Ends

\* Once the invocation has its outcome, no call of the service is made
NoCallAfter(Ends) ==
    phase \in Ends => UNCHANGED <<tasks, execs, polls, phase>>

\* The invocation gave up without calling the service at all
NoServiceCall == pc \in {"done", "raised"} /\ phase = "none" /\ tasks = 0

\* C8 as stated: each invocation of the tour generator or of the dish
\* extractor (that calls the service) creates exactly one task and at most
\* one execution and moves created -> polling -> exactly one of succeeded,
\* failed, timed_out; after a failed or timed-out outcome no further
\* execution is created and no further status poll is issued.
C8_ThreeOutcomesOnly ==
    /\ []((pc = "done" /\ ~NoServiceCall) =>
             (tasks = 1 /\ execs <= 1 /\ phase \in ThreeOutcomes))
    /\ [][PhaseMoves(ThreeOutcomes) /\ NoCallAfter(ThreeOutcomes)]_vars

FourOutcomes == ThreeOutcomes \cup {"error"}

\* C8 as amended: an invocation that calls the service makes exactly one
\* task-creation call and at most one execution-creation call, and moves
\* created -> polling -> exactly one of succeeded, failed, timed_out, or
\* ends with a client error thrown by one of its calls; after its outcome no
\* further execution is created and no further status poll is issued.
C8_OneExecutionNoRetry ==
    /\ [](tasks <= 1 /\ execs <= 1)
    /\ []((pc = "done" /\ ~NoServiceCall) =>
             (tasks = 1 /\ phase \in FourOutcomes))
    /\ []((pc = "done" /\ phase \in ThreeOutcomes) => (execs = 1 /\ polls >= 1))
    /\ [][(PhaseMoves(ThreeOutcomes) \/ (phase \notin FourOutcomes /\ phase' = "error"))
            /\ NoCallAfter(FourOutcomes)]_vars

\* An execution that timed out: one task, one execution, several polls
C8_Witness ==
    /\ pc = "done" /\ phase = "timed_out"
    /\ tasks = 1 /\ execs = 1 /\ polls > 1

\* Every status request returns or throws, and the loop runs on
SpecExecLive ==
    SpecExec /\ WF_vars(PollSend) /\ WF_vars(PollReturn) /\ WF_vars(Sleep)

\* The polls an invocation can make before its deadline has passed
MaxPolls(f) == (timeout_of(f) \div PollInterval) + 1

\* C9: the polling loop terminates.  Polling every 2 seconds, an invocation
\* whose execution never becomes succeeded or failed returns once its
\* deadline (60 s for the tour, 30 s for the dishes) is exceeded, null from
\* the tour generator and the fallback list from the dish extractor, and it
\* does not raise or poll without end.
C9_PollingTerminates ==
    /\ (phase = "created") ~> (pc = "done" \/ svcStatus # "running")
    /\ [](phase # "none" => (pc # "raised" /\ polls <= MaxPolls(fn)))
    /\ []((pc = "done" /\ phase # "none" /\ svcStatus = "running") =>
            /\ phase \in {"timed_out", "error"}
            /\ result = IF fn = "tour" THEN Null ELSE Fallback)
    /\ [](phase = "timed_out" =>
            /\ deadline = IF fn = "tour" THEN 60 ELSE 30
            /\ clock > deadline)

\* The execution never ended and the tour generator gave up after its 60 s
C9_Witness ==
    /\ fn = "tour" /\ pc = "done" /\ phase = "timed_out"
    /\ svcStatus = "running" /\ clock > 60 /\ result = Null

(***************************************************************************)
(* Claims about the batch driver, checked under SpecBatch.                  *)
(***************************************************************************)
\* C10: a failure in any step for one city never aborts the batch: every
\* city of the input list is still processed and the driver reaches its
\* end, the worst outcome being a missing tour for that city.
C10_BatchNeverAborts ==
    /\ bpc # "aborted"
    /\ bpc = "end" => completed = 1..NCities

(***************************************************************************)
(* Claims about one city's pipeline, checked under SpecBatch.               *)
(***************************************************************************)
PipelineOrder == <<"weather", "scrape", "extract", "lookups", "tour">>

IsPrefix(s, t) == Len(s) <= Len(t) /\ SubSeq(t, 1, Len(s)) = s

\* The restaurant lookups issued and not yet returned
InFlight == {k \in DOMAIN lookups : lookups[k].state = "pending"}

\* C11: within one city's pipeline the steps start in the order weather,
\* dish-text scrape, dish extraction, restaurant lookups, tour generation,
\* each only after the one before it has completed (its result is there);
\* the 3 restaurant lookups are issued together, and tour generation starts
\* only after all 3 of them have returned.
C11_StepsInOrder ==
    /\ IsPrefix(started, PipelineOrder)
    /\ Len(started) >= 2 => bweather # NoReading
    /\ Len(started) >= 3 => dishText # "unset"
    /\ Len(started) >= 4 => dishes.kind = "array"
    /\ Len(started) < 4 => lookups = <<>>
    /\ Len(started) >= 4 => DOMAIN lookups = 1..3
    /\ InFlight # {} => Len(started) = 4
    /\ Len(started) = 5 =>
          /\ InFlight = {}
          /\ \A k \in 1..3 : lookups[k].state = "returned"
          /\ Len(infos) = 3

\* The second lookup has returned while the first and third are in flight
C11_Witness ==
    /\ started = <<"weather", "scrape", "extract", "lookups">>
    /\ InFlight = {1, 3}
    /\ lookups[2].state = "returned"

\* The search of a lookup gave no page that is kept
TotalFailure(srch) ==
    \/ srch.kind = "noimport"
    \/ \A j \in 1..Len(srch.pages) :
          ~(srch.pages[j].kind = "page" /\ srch.pages[j].len > 200)

\* C12: in the restaurant fan-out over a city's 3 dishes a scrape failure
\* for one dish does not affect the results of the others: the list each
\* lookup obtained is passed unchanged, at the position of its dish, to tour
\* generation, and a dish whose scrape failed contributes an empty list (a
\* list, not null).
C12_FanOutIsolation ==
    bpc \in {"tour", "return"} =>
        /\ DOMAIN infos = 1..3
        /\ \A k \in 1..3 :
              /\ infos[k] = lookups[k].value
              /\ DOMAIN infos[k] = 1..Len(infos[k])
              /\ TotalFailure(lookups[k].search) => infos[k] = <<>>
              /\ ~TotalFailure(lookups[k].search) => infos[k] # <<>>

\* The search for the first dish failed at once; the three snippets of the
\* second dish and the one of the third reach tour generation
C12_Witness ==
    /\ bpc = "tour"
    /\ lookups[1].search = [kind |-> "search", pages |-> <<>>, ends |-> "raises"]
    /\ infos[1] = <<>>
    /\ Len(infos[2]) = 3
    /\ Len(infos[3]) = 1

\* The items of a text are the first n snippets of a list, joined
IsJoinOfFirst(items, restaurants) ==
    \E n \in 1..Len(restaurants) :
        /\ Len(items) = 2 * n - 1
        /\ \A j \in 1..n : items[2 * j - 1] = restaurants[j]
        /\ \A j \in 1..(n - 1) : items[2 * j] = SemiColon

\* C13: the restaurant-context block the tour generator builds holds, for
\* each dish in dish-list order, one entry of the dish followed by its first
\* snippets joined with "; ", and for every dish whose snippet list is empty
\* the phrase "Popular local restaurants" in place of the snippets, in the
\* CLI and in the UI implementation.
C13_ContextBlock ==
    bpc = "return" =>
        /\ Len(context) = Len(dishes.items)
        /\ \A k \in 1..Len(context) :
              /\ context[k].dish = dishes.items[k]
              /\ infos[k] = <<>> => context[k].text = Phrase
              /\ infos[k] # <<>> =>
                    /\ context[k].text.kind = "joined"
                    /\ IsJoinOfFirst(context[k].text.items, infos[k])

(***************************************************************************)
(* Claims about the results list, checked under SpecBatch.                  *)
(***************************************************************************)
IsTour(v) == v.kind = "object" /\ v.items # <<>>

\* C14: the results list holds exactly the tours of the cities processed so
\* far whose pipeline returned a tour, in input order, with at most one
\* entry per city and no entry for a city whose pipeline returned null or
\* raised; once the driver has processed all the cities that is so for the
\* whole input list.
C14_ResultsInInputOrder ==
    /\ results = SelectSeq(returns, IsTour)
    /\ Len(results) <= Len(returns)
    /\ bpc # "aborted" => Len(returns) = idx - 1
    /\ bpc \in {"save", "end"} => Len(returns) = NCities

\* Three cities processed: the first and the last gave different tours, the
\* second gave null
C14_Witness ==
    /\ bpc = "end"
    /\ Len(returns) = 3
    /\ returns[2] = Null
    /\ Len(results) = 2
    /\ results[1] = returns[1] /\ results[2] = returns[3]
    /\ results[1] # results[2]

(***************************************************************************)
(* Claims about scrape_top_dish_results, checked under SpecScrape.          *)
(***************************************************************************)
\* The search results whose text is kept: fetched, and longer than 200
KeptUrls(srch) ==
    {j \in 1..Len(srch.pages) :
        srch.pages[j].kind = "page" /\ srch.pages[j].len > 200}

Rank(S, j) == Cardinality({i \in S : i <= j})

\* The items are the kept texts, in result order, each cut to 2000
\* characters, with a blank line between two of them
IsJoinedKept(items, srch) ==
    LET K == KeptUrls(srch)
        n == Cardinality(K)
    IN /\ Len(items) = 2 * n - 1
       /\ \A j \in K :
             items[2 * Rank(K, j) - 1] =
                 [url |-> j,
                  len |-> IF srch.pages[j].len > 2000 THEN 2000
                          ELSE srch.pages[j].len]
       /\ \A i \in 1..(n - 1) : items[2 * i] = Separator

\* Every URL the search yielded is visited, at most 3 of them
VisitsEveryUrl ==
    /\ visited <= 3
    /\ Len(snippets) <= visited
    /\ spc \in {"return", "done"} =>
          (search.kind = "noimport" \/ visited = Len(search.pages))

\* C15 as stated: scrape_top_dish_results visits at most 3 search-result
\* URLs, skips a URL whose fetch fails without abandoning the remaining
\* ones, keeps only texts longer than 200 characters cut to 2000, and
\* returns null when zero snippets were collected or when the search step
\* itself failed; otherwise it returns the kept snippets, in result order,
\* joined by a blank line.
C15_NullWhenSearchFailed ==
    /\ VisitsEveryUrl
    /\ spc = "done" =>
          IF search.kind = "noimport" \/ search.ends = "raises"
                \/ KeptUrls(search) = {}
          THEN scraped = Null
          ELSE scraped.kind = "text" /\ IsJoinedKept(scraped.items, search)

\* C15 as amended: it visits at most 3 search-result URLs, skips a URL whose
\* fetch fails without abandoning the remaining ones, keeps only texts
\* longer than 200 characters cut to 2000, and returns null when zero
\* snippets were collected (the import failed, the search failed before a
\* text was kept, or no text was kept); otherwise, also when the search
\* failed after texts were kept, it returns the kept snippets, in result
\* order, joined by a blank line.
C15_NullWhenNothingKept ==
    /\ VisitsEveryUrl
    /\ spc = "done" =>
          IF search.kind = "noimport" \/ KeptUrls(search) = {}
          THEN scraped = Null
          ELSE scraped.kind = "text" /\ IsJoinedKept(scraped.items, search)

\* The first fetch failed, the second text was cut to 2000 characters, the
\* third was too short, and then the search raised: the one snippet is
\* returned
C15_Witness ==
    /\ spc = "done"
    /\ search.ends = "raises"
    /\ search.pages = <<FetchFailed, [kind |-> "page", len |-> 2001],
                        [kind |-> "page", len |-> 200]>>
    /\ scraped = [kind |-> "text", items |-> <<[url |-> 2, len |-> 2000]>>]

(***************************************************************************)
(* Claims about the tour JSON extraction, checked under SpecExec.           *)
(***************************************************************************)
\* The span of a content from its first "{" to its last "}", read as a JSON
\* object; null when there is no such span or it is not a JSON text
ParseOfSpan(c) ==
    LET opens == {i \in 1..Len(c) : c[i] = "{"}
        closes == {i \in 1..Len(c) : c[i] = "}"}
    IN IF opens = {} \/ closes = {} THEN Null
       ELSE LET first == CHOOSE i \in opens : \A j \in opens : i <= j
                last == CHOOSE i \in closes : \A j \in closes : j <= i
            IN IF first < last
                    /\ \A k \in (first + 1)..(last - 1) : c[k] \in Members \cup {"ws"}
               THEN [kind |-> "object",
                     items |-> SelectSeq(SubSeq(c, first + 1, last - 1),
                                         LAMBDA t : t \in Members)]
               ELSE Null

\* C16: tour JSON extraction examines exactly one message of a succeeded
\* execution's output, the last one with the role assistant and non-empty
\* content: it returns the parse of that message's text from its first "{"
\* to its last "}", and null if that parse fails, without falling back to an
\* earlier assistant message even when an earlier one holds valid JSON.
C16_LastAssistantDecides ==
    (fn = "tour" /\ pc = "done" /\ phase = "succeeded") =>
        IF HasAssistantContent(output)
        THEN result = ParseOfSpan(ChosenContent(output))
        ELSE result = Null

\* The last assistant message does not parse from its first "{" to its last
\* "}"; the one before it holds a valid TourPlan; null is returned
C16_Witness ==
    /\ fn = "tour" /\ pc = "done" /\ phase = "succeeded"
    /\ Len(output) = 2
    /\ output[1] = Assistant(Obj(TourPlanMembers))
    /\ output[2] = Assistant(<<"w", "{", "w", "}", "w">> \o Obj(TourPlanMembers))
    /\ result = Null

(***************************************************************************)
(* Claims about the deadline of the polling loop, checked under SpecExec.   *)
(***************************************************************************)
\* C17: the polling loop of the tour generator and of the dish extractor
\* reports a timeout only if the execution had not reached a terminal status
\* by the deadline: an execution that became succeeded or failed before the
\* deadline is never reported as timed out.
C17_TimeoutOnlyIfNotTerminal ==
    phase = "timed_out" => (doneAt = 0 - 1 \/ doneAt >= deadline)

=============================================================================
